---- MODULE Spec2Model ----
(***************************************************************************)
(* RC car data logger (PanopticBEV/deploy_car/pic_take.py).                *)
(*                                                                         *)
(* main() creates the output directory, writes run_header.json and then    *)
(* runs one of two acquisition loops (picamera2_loop, opencv_loop).  Each   *)
(* loop is modelled statement by statement: pc names the next statement.   *)
(* Time is counted in ticks of 0.1 s; args.seconds is held in ticks.       *)
(* An exception (an I/O error, a failed device, a KeyboardInterrupt) is    *)
(* unwound in one step: the `with` block closes the metadata file, main's  *)
(* `except KeyboardInterrupt` / `finally` run, and main ends.              *)
(***************************************************************************)
EXTENDS Integers, Sequences, FiniteSets, TLC

VARIABLES
    args,        \* parsed command line: backend, fps, seconds, width, height
    priorLines,  \* lines meta.jsonl held before this run started
    pc,          \* next statement of main / the loop
    now,         \* wall clock (ticks)
    period, t0, t, i,   \* locals of the loop
    frame,       \* the frame returned by the last capture (or NoFrame)
    cam,         \* "none" | "open" | "released"
    fopen, buf,  \* the metadata handle f: open?, lines written but not flushed
    outDir, header, framesDir, frames, meta,   \* the file system under --out
    calls,       \* capture calls made on the Frame Source
    result, exc, \* how main ended: "running" | "returned" | "raised", and why
    cause,       \* why the loop left Running
    intAt,       \* pc at which a KeyboardInterrupt was raised ("none" if none)
    failedCall,  \* number of the capture call that failed (0: none failed)
    saved,       \* names of the frame files written by this run
    saveFaults,  \* imwrite calls of this run that returned False
    appended     \* lines this run added to meta.jsonl

vars == <<args, priorLines, pc, now, period, t0, t, i, frame, cam, fopen, buf,
          outDir, header, framesDir, frames, meta, calls, result, exc, cause,
          intAt, failedCall, saved, saveFaults, appended>>

----------------------------------------------------------------------------
(* Bounds of the model *)

MaxCalls == 5
MaxPrior == 2
MaxSaveFaults == 1

Backends == {"picamera2", "opencv"}
FpsSet == {5, 10}
SecondsSet == {0, 5}
Lags == {0, 1}
WorkTimes == {0, 1, 2}
SetBackSteps == {2}
SetBackCalls == {1}

----------------------------------------------------------------------------
(* Frames, images and file names *)

NoFrame == [width |-> 0, height |-> 0, data |-> <<>>]

\* Frames of the Frame Source: data is one pixel's channels in the source's
\* native order (RGB for Picamera2 "RGB888" as the code treats it, BGR for
\* cv2.VideoCapture).  The first has the configured size, the second not.
FrameA == [width |-> 2, height |-> 1, data |-> <<1, 2, 3>>]
FrameB == [width |-> 1, height |-> 2, data |-> <<4, 5, 6>>]

\* The k-th frame a successful capture call returns (k = 1, 2, ...).
Stream(k) == IF k % 2 = 1 THEN FrameA ELSE FrameB

Reverse(s) == [k \in 1..Len(s) |-> s[Len(s) + 1 - k]]

\* cv2.cvtColor(frame, cv2.COLOR_RGB2BGR): swaps the channel order.
cvtColor(f) == [f EXCEPT !.data = Reverse(@)]

\* What cv2.imwrite stores for a frame it takes to be BGR: a PNG (RGB order).
EncodePng(f) == [width |-> f.width, height |-> f.height, rgb |-> Reverse(f.data)]

\* The picture a frame of the source shows, by backend.
Picture(f, backend) ==
    [width |-> f.width, height |-> f.height,
     rgb |-> IF backend = "picamera2" THEN f.data ELSE Reverse(f.data)]

RECURSIVE Digits(_)
Digits(n) == IF n < 10 THEN <<n>> ELSE Digits(n \div 10) \o <<n % 10>>

RECURSIVE Zeros(_)
Zeros(n) == IF n <= 0 THEN <<>> ELSE <<0>> \o Zeros(n - 1)

\* f"{i:06d}": at least six digits, zero padded on the left.
Pad6(n) == Zeros(6 - Len(Digits(n))) \o Digits(n)

\* fname = f"{i:06d}.png"
Fname(n) == <<Pad6(n), "png">>

\* period = 1.0 / fps, in ticks of 0.1 s
Period(fps) == 10 \div fps

OldImage == [width |-> 9, height |-> 9, rgb |-> <<0, 0, 0>>]

OldRecord(k) ==
    [idx |-> k, file |-> <<"frames", Fname(k)>>, timestamp_unix |-> 0,
     width |-> 9, height |-> 9]

\* What an earlier run that logged p frames left behind.
PriorMeta(p) == [k \in 1..p |-> OldRecord(k - 1)]
PriorFrames(p) == [n \in {Fname(k) : k \in 0..(p - 1)} |-> OldImage]

OldHeader ==
    [created |-> 0, backend |-> "opencv", fps |-> 5, width |-> 2, height |-> 1,
     seconds |-> 0, device |-> 0]

----------------------------------------------------------------------------
Init ==
    /\ args \in [backend : Backends, fps : FpsSet, seconds : SecondsSet,
                 width : {2}, height : {1}, device : {0}]
    /\ priorLines \in {0, MaxPrior}
    /\ pc = "ensure_out"
    /\ now = 1
    /\ period = 0 /\ t0 = 0 /\ t = 0 /\ i = 0
    /\ frame = NoFrame
    /\ cam = "none"
    /\ fopen = FALSE /\ buf = <<>>
    /\ outDir = (priorLines > 0)
    /\ header = IF priorLines > 0 THEN <<OldHeader>> ELSE <<>>
    /\ framesDir = (priorLines > 0)
    /\ frames = PriorFrames(priorLines)
    /\ meta = PriorMeta(priorLines)
    /\ calls = 0
    /\ result = "running" /\ exc = "none" /\ cause = "none"
    /\ intAt = "none" /\ failedCall = 0
    /\ saved = {} /\ saveFaults = 0 /\ appended = 0

----------------------------------------------------------------------------
(* Exceptions *)

\* The statements inside main's try block (lines 168-172): the loop functions.
InTry(p) == p \notin {"ensure_out", "header", "Stopped"}

\* Mutant: main catches every exception (except Exception) and returns.
UnwindCatchAll(e, kept, why) ==
    /\ pc' = "Stopped"
    /\ exc' = e
    /\ result' = IF InTry(pc) THEN "returned" ELSE "raised"
    /\ cause' = IF cause # "none" THEN cause ELSE why
    /\ fopen' = FALSE
    /\ buf' = <<>>
    /\ meta' = IF fopen /\ kept THEN meta \o buf ELSE meta
    /\ appended' = IF fopen /\ kept THEN appended + Len(buf) ELSE appended

\* Exception e leaves the current statement.  If the `with open(...) as f`
\* block is active its exit closes f; close writes the buffered lines out
\* (kept) or, after an I/O error, may lose them.  cam.stop() / cap.release()
\* follow the with block and are skipped.  main catches KeyboardInterrupt
\* raised inside its try block and returns; anything else propagates.
\* why is recorded as the reason the run ended, unless the loop had already
\* left Running for another reason.
Unwind(e, kept, why) ==
    /\ pc' = "Stopped"
    /\ exc' = e
    /\ result' = IF InTry(pc) /\ e = "KeyboardInterrupt" THEN "returned" ELSE "raised"
    /\ cause' = IF cause # "none" THEN cause ELSE why
    /\ fopen' = FALSE
    /\ buf' = <<>>
    /\ meta' = IF fopen /\ kept THEN meta \o buf ELSE meta
    /\ appended' = IF fopen /\ kept THEN appended + Len(buf) ELSE appended

----------------------------------------------------------------------------
(* main: lines 152-166 *)

EnsureOutDir ==
    /\ pc = "ensure_out"
    /\ outDir' = TRUE
    /\ pc' = "header"
    /\ UNCHANGED <<saveFaults, args, priorLines, now, period, t0, t, i, frame, cam, fopen, buf,
                   header, framesDir, frames, meta, calls, result, exc, cause,
                   intAt, failedCall, saved, appended>>

EnsureOutDirFails ==
    /\ pc = "ensure_out"
    /\ ~outDir
    /\ Unwind("OSError", TRUE, "start_failed")
    /\ UNCHANGED <<saveFaults, args, priorLines, now, period, t0, t, i, frame, cam,
                   outDir, header, framesDir, frames, calls,
                   intAt, failedCall, saved>>

Header ==
    [created |-> now, backend |-> args.backend, fps |-> args.fps,
     width |-> args.width, height |-> args.height, seconds |-> args.seconds,
     device |-> args.device]

WriteHeader ==
    /\ pc = "header"
    /\ header' = <<Header>>
    /\ pc' = "frames_dir"
    /\ UNCHANGED <<saveFaults, args, priorLines, now, period, t0, t, i, frame, cam, fopen, buf,
                   outDir, framesDir, frames, meta, calls, result, exc, cause,
                   intAt, failedCall, saved, appended>>

WriteHeaderFails ==
    /\ pc = "header"
    /\ Unwind("OSError", TRUE, "start_failed")
    /\ UNCHANGED <<saveFaults, args, priorLines, now, period, t0, t, i, frame, cam,
                   outDir, header, framesDir, frames, calls,
                   intAt, failedCall, saved>>

----------------------------------------------------------------------------
(* picamera2_loop lines 34-48, opencv_loop lines 90-105 *)

EnsureFramesDir ==
    /\ pc = "frames_dir"
    /\ framesDir' = TRUE
    /\ pc' = "open_cam"
    /\ UNCHANGED <<saveFaults, args, priorLines, now, period, t0, t, i, frame, cam, fopen, buf,
                   outDir, header, frames, meta, calls, result, exc, cause,
                   intAt, failedCall, saved, appended>>

EnsureFramesDirFails ==
    /\ pc = "frames_dir"
    /\ ~framesDir
    /\ Unwind("OSError", TRUE, "start_failed")
    /\ UNCHANGED <<saveFaults, args, priorLines, now, period, t0, t, i, frame, cam,
                   outDir, header, framesDir, frames, calls,
                   intAt, failedCall, saved>>

\* Picamera2(); configure; start  /  cv2.VideoCapture(device), isOpened()
OpenCamera ==
    /\ pc = "open_cam"
    /\ cam' = "open"
    /\ pc' = "start_clock"
    /\ UNCHANGED <<saveFaults, args, priorLines, now, period, t0, t, i, frame, fopen, buf,
                   outDir, header, framesDir, frames, meta, calls, result, exc,
                   cause, intAt, failedCall, saved, appended>>

\* The device cannot be opened: Picamera2 raises; opencv_loop raises
\* RuntimeError("Could not open camera device").
OpenCameraFails ==
    /\ pc = "open_cam"
    /\ Unwind("RuntimeError", TRUE, "start_failed")
    /\ UNCHANGED <<saveFaults, args, priorLines, now, period, t0, t, i, frame, cam,
                   outDir, header, framesDir, frames, calls,
                   intAt, failedCall, saved>>

StartClock ==
    /\ pc = "start_clock"
    /\ period' = Period(args.fps)
    /\ t0' = now
    /\ i' = 0
    /\ pc' = "open_meta"
    /\ UNCHANGED <<saveFaults, args, priorLines, now, t, frame, cam, fopen, buf,
                   outDir, header, framesDir, frames, meta, calls, result, exc,
                   cause, intAt, failedCall, saved, appended>>

\* Mutant: open(meta_path, "w"), which truncates the file.
OpenMetaTruncating ==
    /\ pc = "open_meta"
    /\ fopen' = TRUE
    /\ buf' = <<>>
    /\ meta' = <<>>
    /\ pc' = "check"
    /\ UNCHANGED <<saveFaults, args, priorLines, now, period, t0, t, i, frame, cam,
                   outDir, header, framesDir, frames, calls, result, exc,
                   cause, intAt, failedCall, saved, appended>>

\* open(meta_path, "a"): the lines already in the file stay.
OpenMeta ==
    /\ pc = "open_meta"
    /\ fopen' = TRUE
    /\ buf' = <<>>
    /\ meta' = meta
    /\ pc' = "check"
    /\ UNCHANGED <<saveFaults, args, priorLines, now, period, t0, t, i, frame, cam,
                   outDir, header, framesDir, frames, calls, result, exc,
                   cause, intAt, failedCall, saved, appended>>

OpenMetaFails ==
    /\ pc = "open_meta"
    /\ Unwind("OSError", TRUE, "start_failed")
    /\ UNCHANGED <<saveFaults, args, priorLines, now, period, t0, t, i, frame, cam,
                   outDir, header, framesDir, frames, calls,
                   intAt, failedCall, saved>>

----------------------------------------------------------------------------
(* The acquisition loop: picamera2_loop lines 50-85, opencv_loop 107-138 *)

\* Mutant: seconds > 0 and (t - t0) > seconds
ExpiredStrict(tt) == args.seconds > 0 /\ (tt - t0) > args.seconds

ExpiredSinceLastCycle(tt) == args.seconds > 0 /\ (tt - t) >= args.seconds

\* seconds > 0 and (t - t0) >= seconds
Expired(tt) == args.seconds > 0 /\ (tt - t0) >= args.seconds

\* t = time.time(); then the duration test.  d is the time that passed since
\* the clock was last read or the sleep ended.
CheckDurationAfter(d) ==
    /\ pc = "check"
    /\ now' = now + d
    /\ t' = now'
    /\ IF Expired(t')
       THEN /\ pc' = "with_exit"
            /\ cause' = "duration"
       ELSE /\ pc' = "capture"
            /\ cause' = cause
    /\ UNCHANGED <<saveFaults, args, priorLines, period, t0, i, frame, cam, fopen, buf,
                   outDir, header, framesDir, frames, meta, calls, result, exc,
                   intAt, failedCall, saved, appended>>

\* Before the first cycle the clock has moved on since t0 was read (the log
\* was opened in between); later readings follow the end of the sleep at
\* once, and a sleep that overruns counts as work time of the cycle.
CheckDuration == \E d \in (IF calls = 0 THEN Lags ELSE {0}) : CheckDurationAfter(d)

\* time.time() is the wall clock: while the loop sleeps the system clock may
\* be set back (an NTP step, a manual change), and the next reading is lower
\* than it would have been.  The model sets the clock back at most once
\* after a cycle, and only after the cycles of SetBackCalls.
ClockSetBack ==
    /\ pc = "check"
    /\ calls \in SetBackCalls
    /\ now > t
    /\ \E b \in SetBackSteps : now' = now - b
    /\ UNCHANGED <<saveFaults, args, priorLines, pc, period, t0, t, i, frame, cam, fopen, buf,
                   outDir, header, framesDir, frames, meta, calls, result, exc,
                   cause, intAt, failedCall, saved, appended>>

\* cam.capture_array() / cap.read() returns a frame.
Capture ==
    /\ pc = "capture"
    /\ calls < MaxCalls
    /\ calls' = calls + 1
    /\ frame' = Stream(calls')
    /\ pc' = "save"
    /\ UNCHANGED <<saveFaults, args, priorLines, now, period, t0, t, i, cam, fopen, buf,
                   outDir, header, framesDir, frames, meta, result, exc, cause,
                   intAt, failedCall, saved, appended>>

\* cap.read() returns ok = False: "Frame read failed, stopping." and break.
CaptureFailsOpencv ==
    /\ pc = "capture"
    /\ args.backend = "opencv"
    /\ calls < MaxCalls
    /\ calls' = calls + 1
    /\ failedCall' = calls'
    /\ cause' = "capture_failed"
    /\ pc' = "with_exit"
    /\ UNCHANGED <<saveFaults, args, priorLines, now, period, t0, t, i, frame, cam, fopen, buf,
                   outDir, header, framesDir, frames, meta, result, exc,
                   intAt, saved, appended>>

\* cam.capture_array() raises: picamera2_loop handles no exception.
CaptureFailsPicamera2 ==
    /\ pc = "capture"
    /\ args.backend = "picamera2"
    /\ calls < MaxCalls
    /\ calls' = calls + 1
    /\ failedCall' = calls'
    /\ Unwind("RuntimeError", TRUE, "capture_failed")
    /\ UNCHANGED <<saveFaults, args, priorLines, now, period, t0, t, i, frame, cam,
                   outDir, header, framesDir, frames, intAt, saved>>

\* picamera2_loop: frame_bgr = cv2.cvtColor(frame, cv2.COLOR_RGB2BGR);
\* opencv_loop: cap.read() already gave frame_bgr.
FrameBgr == IF args.backend = "picamera2" THEN cvtColor(frame) ELSE frame

\* cv2.imwrite(fpath, frame_bgr) writes (or overwrites) frames/<fname>.
SaveFrame ==
    /\ pc = "save"
    /\ frames' = (Fname(i) :> EncodePng(FrameBgr)) @@ frames
    /\ saved' = saved \cup {Fname(i)}
    /\ pc' = "write"
    /\ UNCHANGED <<saveFaults, args, priorLines, now, period, t0, t, i, frame, cam, fopen, buf,
                   outDir, header, framesDir, meta, calls, result, exc, cause,
                   intAt, failedCall, appended>>

\* cv2.imwrite returns False (the file could not be written); the code does
\* not look at the return value.
SaveFrameReturnsFalse ==
    /\ pc = "save"
    /\ saveFaults < MaxSaveFaults
    /\ saveFaults' = saveFaults + 1
    /\ pc' = "write"
    /\ UNCHANGED <<args, priorLines, now, period, t0, t, i, frame, cam, fopen, buf,
                   outDir, header, framesDir, frames, meta, calls, result, exc,
                   cause, intAt, failedCall, saved, appended>>

\* cv2.cvtColor / cv2.imwrite raises cv2.error.
SaveFrameRaises ==
    /\ pc = "save"
    /\ Unwind("cv2.error", TRUE, "io_error")
    /\ UNCHANGED <<saveFaults, args, priorLines, now, period, t0, t, i, frame, cam,
                   outDir, header, framesDir, frames, calls,
                   intAt, failedCall, saved>>

\* rec = {...}: picamera2_loop records the configured width and height,
\* opencv_loop reads h, w = frame_bgr.shape[:2].
Record ==
    [idx |-> i, file |-> <<"frames", Fname(i)>>, timestamp_unix |-> t,
     width |-> IF args.backend = "picamera2" THEN args.width ELSE FrameBgr.width,
     height |-> IF args.backend = "picamera2" THEN args.height ELSE FrameBgr.height]

\* f.write(json.dumps(rec) + "\n")
WriteRecord ==
    /\ pc = "write"
    /\ buf' = Append(buf, Record)
    /\ pc' = "flush"
    /\ UNCHANGED <<saveFaults, args, priorLines, now, period, t0, t, i, frame, cam, fopen,
                   outDir, header, framesDir, frames, meta, calls, result, exc,
                   cause, intAt, failedCall, saved, appended>>

\* f.flush()
Flush ==
    /\ pc = "flush"
    /\ meta' = meta \o buf
    /\ appended' = appended + Len(buf)
    /\ buf' = <<>>
    /\ pc' = "incr"
    /\ UNCHANGED <<saveFaults, args, priorLines, now, period, t0, t, i, frame, cam, fopen,
                   outDir, header, framesDir, frames, calls, result, exc,
                   cause, intAt, failedCall, saved>>

\* f.flush() raises OSError (the disk is full, the device is gone): the close
\* on leaving the with block tries again, and writes the line or loses it.
FlushRaises ==
    /\ pc = "flush"
    /\ \E kept \in BOOLEAN : Unwind("OSError", kept, "io_error")
    /\ UNCHANGED <<saveFaults, args, priorLines, now, period, t0, t, i, frame, cam,
                   outDir, header, framesDir, frames, calls,
                   intAt, failedCall, saved>>

\* Mutant: i += 2
IncrementByTwo ==
    /\ pc = "incr"
    /\ i' = i + 2
    /\ pc' = "elapsed"
    /\ UNCHANGED <<saveFaults, args, priorLines, now, period, t0, t, frame, cam, fopen, buf,
                   outDir, header, framesDir, frames, meta, calls, result, exc,
                   cause, intAt, failedCall, saved, appended>>

\* i += 1
Increment ==
    /\ pc = "incr"
    /\ i' = i + 1
    /\ pc' = "elapsed"
    /\ UNCHANGED <<saveFaults, args, priorLines, now, period, t0, t, frame, cam, fopen, buf,
                   outDir, header, framesDir, frames, meta, calls, result, exc,
                   cause, intAt, failedCall, saved, appended>>

\* Mutant: time.sleep(period), whatever the cycle's work took.
SleepTimeIgnoresWork(dt) == period

\* Mutant: sleep_t = period - dt, without the max.
SleepTimeSigned(dt) == period - dt

\* sleep_t = max(0.0, period - dt)
SleepTime(dt) == IF period - dt > 0 THEN period - dt ELSE 0

\* dt = time.time() - t: by this reading the cycle's work has taken w, so
\* that dt = now - t at the sleep that follows.
ReadElapsedAfter(w) ==
    /\ pc = "elapsed"
    /\ now' = now + w
    /\ pc' = "sleep"
    /\ UNCHANGED <<saveFaults, args, priorLines, period, t0, t, i, frame, cam, fopen, buf,
                   outDir, header, framesDir, frames, meta, calls, result, exc,
                   cause, intAt, failedCall, saved, appended>>

ReadElapsed == \E w \in WorkTimes : ReadElapsedAfter(w)

\* time.sleep(max(0.0, period - dt))
Sleep ==
    /\ pc = "sleep"
    /\ now' = now + SleepTime(now - t)
    /\ pc' = "check"
    /\ UNCHANGED <<saveFaults, args, priorLines, period, t0, t, i, frame, cam, fopen, buf,
                   outDir, header, framesDir, frames, meta, calls, result, exc,
                   cause, intAt, failedCall, saved, appended>>

\* Leaving the with block after break: f is closed.
WithExit ==
    /\ pc = "with_exit"
    /\ fopen' = FALSE
    /\ meta' = meta \o buf
    /\ appended' = appended + Len(buf)
    /\ buf' = <<>>
    /\ pc' = "release"
    /\ UNCHANGED <<saveFaults, args, priorLines, now, period, t0, t, i, frame, cam,
                   outDir, header, framesDir, frames, calls, result, exc,
                   cause, intAt, failedCall, saved>>

\* cam.stop() / cap.release(); the loop returns, main's finally prints and
\* main returns.
Release ==
    /\ pc = "release"
    /\ cam' = "released"
    /\ result' = "returned"
    /\ pc' = "Stopped"
    /\ UNCHANGED <<saveFaults, args, priorLines, now, period, t0, t, i, frame, fopen, buf,
                   outDir, header, framesDir, frames, meta, calls, exc,
                   cause, intAt, failedCall, saved, appended>>

\* Ctrl+C: Python raises KeyboardInterrupt in the main thread at the next
\* bytecode boundary, wherever the program is.
Interrupt ==
    /\ pc # "Stopped"
    /\ intAt' = pc
    /\ Unwind("KeyboardInterrupt", TRUE, "interrupt")
    /\ UNCHANGED <<saveFaults, args, priorLines, now, period, t0, t, i, frame, cam,
                   outDir, header, framesDir, frames, calls, failedCall, saved>>

Next ==
    \/ EnsureOutDir \/ EnsureOutDirFails
    \/ WriteHeader \/ WriteHeaderFails
    \/ EnsureFramesDir \/ EnsureFramesDirFails
    \/ OpenCamera \/ OpenCameraFails
    \/ StartClock
    \/ OpenMeta \/ OpenMetaFails
    \/ CheckDuration \/ ClockSetBack
    \/ Capture \/ CaptureFailsOpencv \/ CaptureFailsPicamera2
    \/ SaveFrame \/ SaveFrameReturnsFalse \/ SaveFrameRaises
    \/ WriteRecord
    \/ Flush \/ FlushRaises
    \/ Increment
    \/ ReadElapsed
    \/ Sleep
    \/ WithExit
    \/ Release
    \/ Interrupt

Spec == Init /\ [][Next]_vars

----------------------------------------------------------------------------
(* The run of a source that never fails, with no interrupt, no I/O error,
   work that never exceeds the period and exact sleeps: the first cycle
   starts at t0 and each later one a period after the one before. *)

ReadElapsedExact == \E w \in {x \in WorkTimes : x <= period} : ReadElapsedAfter(w)

NextExact ==
    \/ EnsureOutDir
    \/ WriteHeader
    \/ EnsureFramesDir
    \/ OpenCamera
    \/ StartClock
    \/ OpenMeta
    \/ CheckDurationAfter(0)
    \/ Capture
    \/ SaveFrame \/ SaveFrameReturnsFalse
    \/ WriteRecord
    \/ Flush
    \/ Increment
    \/ ReadElapsedExact
    \/ Sleep
    \/ WithExit
    \/ Release

SpecExact == Init /\ [][NextExact]_vars

----------------------------------------------------------------------------
(* The program on a clock that is never set back, and that keeps running *)

\* The statements of main and of the loop when the call they make returns.
Advance ==
    \/ EnsureOutDir
    \/ WriteHeader
    \/ EnsureFramesDir
    \/ OpenCamera
    \/ StartClock
    \/ OpenMeta
    \/ CheckDuration
    \/ Capture
    \/ SaveFrame
    \/ WriteRecord
    \/ Flush
    \/ Increment
    \/ ReadElapsed
    \/ Sleep
    \/ WithExit
    \/ Release

\* What a call may do instead of returning normally, and Ctrl-C.
Fault ==
    \/ EnsureOutDirFails
    \/ WriteHeaderFails
    \/ EnsureFramesDirFails
    \/ OpenCameraFails
    \/ OpenMetaFails
    \/ CaptureFailsOpencv
    \/ CaptureFailsPicamera2
    \/ SaveFrameReturnsFalse
    \/ SaveFrameRaises
    \/ FlushRaises
    \/ Interrupt

NextLive == Advance \/ Fault

\* The interpreter runs the next statement as long as there is one; faults
\* and interrupts may happen but need not.
SpecLive == Init /\ [][NextLive]_vars /\ WF_vars(Advance)

----------------------------------------------------------------------------
(* States of the acquisition loop, and what this run has logged *)

StartingPcs == {"ensure_out", "header", "frames_dir", "open_cam", "start_clock",
                "open_meta"}
RunningPcs == {"check", "capture", "save", "write", "flush", "incr", "elapsed",
               "sleep"}
StoppingPcs == {"with_exit", "release"}

\* Statements of a cycle that follow its capture.
MidCyclePcs == {"save", "write", "flush", "incr"}

\* The lines of meta.jsonl that follow those the file held before the run.
NewLines == SubSeq(meta, priorLines + 1, Len(meta))

\* The same, with the lines f holds that are not flushed yet.
NewWritten == SubSeq(meta \o buf, priorLines + 1, Len(meta) + Len(buf))

RecordedFiles == {NewLines[k].file[2] : k \in 1..Len(NewLines)}

----------------------------------------------------------------------------
(* C1 *)

\* C1: a run that ended by duration expiry, capture failure or interrupt has
\* appended as many lines to meta.jsonl as it has written frame files, and
\* every appended record's file names a frame file that exists.
C1_RecordsMatchFrames ==
    (pc = "Stopped" /\ cause \in {"duration", "capture_failed", "interrupt"}) =>
        /\ appended = Cardinality(saved)
        /\ Len(NewLines) = appended
        /\ \A k \in 1..Len(NewLines) : NewLines[k].file[2] \in DOMAIN frames

----------------------------------------------------------------------------
(* C2 *)

\* C2: the records the run appends carry the indices 0, 1, 2, ... in append
\* order, with no gap and no repeat, and outside the statements between the
\* write of a record and i += 1 the next index i is the number of records
\* written: neither a failed capture nor the duration test uses an index up.
C2_IndicesSequential ==
    /\ \A k \in 1..Len(NewWritten) : NewWritten[k].idx = k - 1
    /\ \A k \in 1..Len(NewLines) : NewLines[k].idx = k - 1
    /\ (pc \in {"check", "capture", "save", "write", "elapsed", "sleep", "with_exit",
               "release"}
            => i = Len(NewWritten))
    /\ (pc = "Stopped" /\ cause \in {"duration", "capture_failed"} /\ intAt = "none"
            => i = Len(NewLines))

\* C2 witness: a run has appended three records and then a capture failed.
C2_Witness ==
    /\ pc = "Stopped"
    /\ failedCall = 4
    /\ Len(NewLines) = 3
    /\ NewLines[3].idx = 2

----------------------------------------------------------------------------
(* C3 *)

\* C3: if the k-th capture call fails, exactly k-1 records (indices 0..k-2)
\* are written, no further capture is attempted, and the loop reaches Stopped
\* and returns to its caller without raising, in either backend.
C3_CaptureFailureStopsCleanly ==
    (failedCall # 0) =>
        /\ calls = failedCall
        /\ pc \in StoppingPcs \cup {"Stopped"}
        /\ Len(NewWritten) = failedCall - 1
        /\ \A k \in 1..Len(NewWritten) : NewWritten[k].idx = k - 1
        /\ (pc = "Stopped" => Len(NewLines) = failedCall - 1 /\ result = "returned")

----------------------------------------------------------------------------
(* C4 *)

\* The run left the acquisition loop (the with block) by one of C4's paths.
LeftLoop ==
    /\ pc = "Stopped"
    /\ \/ cause \in {"duration", "capture_failed", "io_error"}
       \/ intAt \in RunningPcs

\* C4: the Frame Source a run opened is released on every exit path of the
\* loop (duration expiry, capture failure, an interrupt raised during the
\* loop, an error raised while saving a frame or appending a record): no run
\* reaches Stopped with the source still open.
C4_SourceReleased ==
    LeftLoop => cam = "released"

----------------------------------------------------------------------------
(* C5 *)

\* C5 as stated: if a step of Starting fails, the run goes directly to
\* Stopped with the error surfaced and nothing has been written under the
\* output directory: no run header, no frames directory, no frame file, no
\* metadata line.
C5_NothingWrittenAtAll ==
    (cause = "start_failed") =>
        /\ pc = "Stopped" /\ result = "raised" /\ calls = 0
        /\ header = (IF priorLines > 0 THEN <<OldHeader>> ELSE <<>>)
        /\ framesDir = (priorLines > 0)
        /\ frames = PriorFrames(priorLines)
        /\ meta = PriorMeta(priorLines)

\* C5 amended: if a step of Starting fails, the run goes directly to Stopped
\* with the error surfaced, no capture has been attempted and no frame file
\* and no metadata line has been written; the output directory, the run
\* header and the frames directory may have been created by then.
C5_NoFrameNoRecordWritten ==
    (cause = "start_failed") =>
        /\ pc = "Stopped" /\ result = "raised" /\ exc \in {"OSError", "RuntimeError"}
        /\ calls = 0
        /\ saved = {} /\ frames = PriorFrames(priorLines)
        /\ appended = 0 /\ meta = PriorMeta(priorLines)

\* C5 witness: the camera could not be opened, after main had written the
\* run header and the loop had created the frames directory.
C5_Witness ==
    /\ cause = "start_failed" /\ exc = "RuntimeError"
    /\ priorLines = 0 /\ header # <<>> /\ framesDir

----------------------------------------------------------------------------
(* C6 *)

\* C6: an interrupt is only observed between cycles: a cycle that has made
\* its capture completes its save and its append before the loop exits, so an
\* interrupt never leaves a frame file saved by the run without a metadata
\* record, nor a record appended without the index having been advanced.
C6_InterruptBetweenCycles ==
    (intAt # "none") =>
        /\ saved \subseteq RecordedFiles
        /\ (intAt \in RunningPcs => i = Len(NewLines))

----------------------------------------------------------------------------
(* C7 *)

\* C7: an interrupt arriving after the loop function has been entered is
\* caught by main, which returns normally by the same clean Stopping path as
\* duration expiry (metadata handle closed, Frame Source released), and the
\* frame files and metadata lines written before it are still there.
C7_InterruptIsCleanStop ==
    (intAt # "none" /\ InTry(intAt)) =>
        /\ pc = "Stopped" /\ result = "returned"
        /\ ~fopen /\ cam # "open"
        /\ saved \subseteq DOMAIN frames
        /\ SubSeq(meta, 1, priorLines) = PriorMeta(priorLines)
        /\ Len(meta) = priorLines + appended

\* The part of C7 that the code does meet: the interrupt is caught, main
\* returns, the handle is closed and the data is kept.
C7_InterruptCaughtDataKept ==
    (intAt # "none" /\ InTry(intAt)) =>
        /\ pc = "Stopped" /\ result = "returned"
        /\ ~fopen
        /\ saved \subseteq DOMAIN frames
        /\ SubSeq(meta, 1, priorLines) = PriorMeta(priorLines)
        /\ Len(meta) = priorLines + appended

----------------------------------------------------------------------------
(* C8 *)

\* The deadline t0 + seconds has been reached at cycle-start time tt.
PastDeadline(tt) == args.seconds > 0 /\ tt >= t0 + args.seconds

\* C8: with seconds > 0 no capture call is made in a cycle whose start time
\* t is at or after t0 + seconds: the test comes before every capture, and
\* once it is true the loop leaves Running and captures, saves and records
\* nothing more.
C8_NoCaptureAfterDeadline ==
    [][ /\ (calls' # calls => ~PastDeadline(t))
        /\ (pc = "check" /\ pc' # "Stopped" /\ PastDeadline(t')
               => pc' = "with_exit" /\ cause' = "duration")
        /\ (cause = "duration"
               => /\ pc' \in StoppingPcs \cup {"Stopped"}
                  /\ calls' = calls /\ frames' = frames /\ saved' = saved
                  /\ meta' \o buf' = meta \o buf) ]_vars

\* C8 witness: a timed run captured frames and then stopped at the deadline.
C8_Witness ==
    /\ pc = "Stopped" /\ cause = "duration" /\ intAt = "none"
    /\ calls >= 3 /\ t >= t0 + args.seconds

----------------------------------------------------------------------------
(* C9 *)

\* C9: a run into a directory whose meta.jsonl holds p lines leaves those p
\* lines in place as the first p lines; once it has appended n records the
\* file holds p + n lines; its frame file names restart at 000000.png, and
\* a frame file an earlier run left under that name is overwritten.
C9_AppendsAfterPriorLines ==
    /\ Len(meta) = priorLines + appended
    /\ SubSeq(meta, 1, priorLines) = PriorMeta(priorLines)
    /\ (appended >= 1 =>
            meta[priorLines + 1].file = <<"frames", <<<<0, 0, 0, 0, 0, 0>>, "png">>>>)
    /\ (calls = 1 /\ pc = "save" => Fname(i) = <<<<0, 0, 0, 0, 0, 0>>, "png">>)
    /\ saved \subseteq {Fname(k) : k \in 0..i}
    /\ (<<<<0, 0, 0, 0, 0, 0>>, "png">> \in saved =>
            frames[<<<<0, 0, 0, 0, 0, 0>>, "png">>] = Picture(Stream(1), args.backend))

\* C9 witness: two prior lines, three records appended, five lines in all,
\* and the earlier run's 000000.png replaced.
C9_Witness ==
    /\ pc = "Stopped" /\ priorLines = 2 /\ appended = 3 /\ Len(meta) = 5
    /\ meta[1] = OldRecord(0) /\ meta[3].idx = 0
    /\ <<<<0, 0, 0, 0, 0, 0>>, "png">> \in saved

----------------------------------------------------------------------------
(* C10 *)

\* C10: for every index i the run recorded, the image this run wrote to
\* frames/<i, six digits>.png is the picture of the (i+1)-th frame the Frame
\* Source returned, and the record's width and height are that frame's (read
\* back from the frame, not taken from the configured width and height), in
\* either backend.
C10_RecordMatchesFrame ==
    \A k \in 1..Len(NewLines) :
        LET r == NewLines[k]
            f == Stream(r.idx + 1)
            n == <<Pad6(r.idx), "png">>
        IN  /\ r.file = <<"frames", n>>
            /\ (n \in saved => frames[n] = Picture(f, args.backend))
            /\ r.width = f.width
            /\ r.height = f.height

----------------------------------------------------------------------------
(* C11 *)

\* C11: within one run the timestamp_unix values of the records appended are
\* non-decreasing in append order, each being the clock reading t taken at
\* the start of its cycle, before the capture.
C11_TimestampsNonDecreasing ==
    /\ \A k \in 1..(Len(NewWritten) - 1) :
            NewWritten[k].timestamp_unix <= NewWritten[k + 1].timestamp_unix
    /\ (pc = "flush" => buf[Len(buf)].timestamp_unix = t)

\* The part of C11 that the code does meet: every record carries the reading
\* taken at the start of its own cycle.
C11_TimestampIsCycleStart ==
    /\ (pc = "flush" => buf[Len(buf)].timestamp_unix = t)
    /\ (pc \in {"incr", "elapsed"} /\ Len(NewLines) > 0
            => NewLines[Len(NewLines)].timestamp_unix = t)

----------------------------------------------------------------------------
(* C12 *)

\* The cycle starts t0 + j * period that lie strictly before t0 + seconds,
\* counted exactly: j * (1 / fps) < seconds, in ticks j * 10 < seconds * fps.
CycleStartsBeforeDeadline ==
    Cardinality({j \in 0..args.seconds : j * 10 < args.seconds * args.fps})

\* C12: with a source that never fails, no interrupt, work within the period
\* and exact sleeps, a run with seconds > 0 writes exactly as many records as
\* there are cycle starts t0 + j * period strictly before t0 + seconds, and
\* never more on the way; with fps = 10 and seconds = 0.5 that is 5 records,
\* indices 0..4.
C12_ExactRunRecordCount ==
    /\ (args.seconds > 0 => Len(NewWritten) <= CycleStartsBeforeDeadline)
    /\ (pc = "Stopped" /\ args.seconds > 0 =>
            /\ Len(NewLines) = CycleStartsBeforeDeadline
            /\ \A k \in 1..Len(NewLines) : NewLines[k].idx = k - 1)
    /\ (pc = "Stopped" /\ args.fps = 10 /\ args.seconds = 5 =>
            /\ Len(NewLines) = 5
            /\ NewLines[1].idx = 0 /\ NewLines[5].idx = 4)

\* C12 witness: the run with fps = 10 and seconds = 0.5 has stopped with
\* five records.
C12_Witness ==
    /\ pc = "Stopped" /\ args.fps = 10 /\ args.seconds = 5
    /\ cause = "duration" /\ Len(NewLines) = 5

----------------------------------------------------------------------------
(* C13 *)

----------------------------------------------------------------------------
(* C14 *)

\* The first half of C14, and the part of its second half that the code
\* meets: a timed loop, once Running, reaches Stopped; with seconds = 0 the
\* loop is never stopped by the elapsed-time check.
C14_TimedLoopStops ==
    /\ (args.seconds > 0 /\ pc \in RunningPcs) ~> (pc = "Stopped")
    /\ [](args.seconds = 0 => cause # "duration")
    /\ [][args.seconds = 0 /\ pc = "check" /\ pc' # "check" =>
            pc' = "capture" \/ (pc' = "Stopped" /\ cause' = "interrupt")]_vars

----------------------------------------------------------------------------
(* C15 *)

\* C15: in every state of a run, wherever the process might be killed, the
\* frame file of a record was written before the record was appended, and a
\* record is appended and flushed before the next index is captured; so the
\* frame files written in the run outnumber the records in meta.jsonl by 0
\* or 1, and never by less.
C15_FileThenRecordThenNext ==
    /\ \A k \in 1..Len(NewWritten) : NewWritten[k].file[2] \in saved
    /\ (pc = "capture" => buf = <<>> /\ Len(NewLines) = i)
    /\ Cardinality(saved) - Len(NewLines) \in {0, 1}

\* The part of C15 that the code does meet: a record is on disk before the
\* next capture, and the calls of cv2.imwrite made in the run outnumber the
\* records in meta.jsonl by 0 or 1.
C15_RecordFlushedBeforeNextCapture ==
    /\ (pc = "capture" => buf = <<>> /\ Len(NewLines) = i)
    /\ (Cardinality(saved) + saveFaults) - Len(NewLines) \in {0, 1}

====
